---------------------------- MODULE Spec2Model ----------------------------
(***************************************************************************)
(* Model of the sales ETL pipeline: the Airflow DAG                        *)
(* (dags/sales_pipeline_dag.py), the cleaning and aggregation functions    *)
(* (include/transformations.py) and the PostgreSQL loader                  *)
(* (include/db_loader.py).                                                 *)
(*                                                                         *)
(* Encoding of values.  A cell of a DataFrame is a tagged record:          *)
(*   Null        NaN / NaT / None                                          *)
(*   S(s)        text, s a sequence of one-character strings               *)
(*   N(n)        a number.  Money is counted in cents, a discount in       *)
(*               hundredths (discount 0.10 is N(10), 1.5 is N(150)), an    *)
(*               average discount in 1/10000 (4 decimals)                  *)
(*   T(d, s)     a pandas Timestamp: day d, s seconds into the day         *)
(*   D(d)        a datetime.date: day d                                    *)
(* A date is written in text as "d<day>" or "d<day>T<seconds>", the        *)
(* model's stand-in for ISO 8601; a number as an optional "-" and digits.  *)
(***************************************************************************)
EXTENDS Integers, Sequences, FiniteSets, TLC

(***************************************************************************)
(* Cells                                                                   *)
(***************************************************************************)
Null == [t |-> "null"]
S(s) == [t |-> "str", v |-> s]
N(n) == [t |-> "num", v |-> n]
T(d, s) == [t |-> "ts", v |-> <<d, s>>]
D(d) == [t |-> "date", v |-> d]

IsNull(c) == c.t = "null"

(***************************************************************************)
(* Python str methods used by clean_and_transform                          *)
(***************************************************************************)
LowerLetters ==
  <<"a","b","c","d","e","f","g","h","i","j","k","l","m",
    "n","o","p","q","r","s","t","u","v","w","x","y","z">>
UpperLetters ==
  <<"A","B","C","D","E","F","G","H","I","J","K","L","M",
    "N","O","P","Q","R","S","T","U","V","W","X","Y","Z">>
DigitChars == <<"0","1","2","3","4","5","6","7","8","9">>

IndexIn(c, seq) ==
  IF \E i \in 1..Len(seq) : seq[i] = c
  THEN CHOOSE i \in 1..Len(seq) : seq[i] = c
  ELSE 0

IsAlpha(c) == IndexIn(c, LowerLetters) > 0 \/ IndexIn(c, UpperLetters) > 0
IsSpace(c) == c = " "

CharUpper(c) ==
  IF IndexIn(c, LowerLetters) > 0 THEN UpperLetters[IndexIn(c, LowerLetters)] ELSE c
CharLower(c) ==
  IF IndexIn(c, UpperLetters) > 0 THEN LowerLetters[IndexIn(c, UpperLetters)] ELSE c

\* str.strip(): leading and trailing whitespace removed
StrStrip(s) ==
  LET keep == {i \in 1..Len(s) : ~IsSpace(s[i])}
  IN IF keep = {} THEN <<>>
     ELSE LET lo == CHOOSE i \in keep : \A j \in keep : i <= j
              hi == CHOOSE i \in keep : \A j \in keep : i >= j
          IN SubSeq(s, lo, hi)

\* str.title(): first letter of each run of letters upper-cased, the rest lower-cased
StrTitle(s) ==
  [i \in 1..Len(s) |->
     IF i = 1 \/ ~IsAlpha(s[i-1]) THEN CharUpper(s[i]) ELSE CharLower(s[i])]

\* str.lower()
StrLower(s) == [i \in 1..Len(s) |-> CharLower(s[i])]

(***************************************************************************)
(* pandas conversions                                                      *)
(***************************************************************************)
IsDigits(s) == Len(s) > 0 /\ \A i \in 1..Len(s) : IndexIn(s[i], DigitChars) > 0

RECURSIVE DigitsValue(_)
DigitsValue(s) ==
  IF Len(s) = 0 THEN 0
  ELSE 10 * DigitsValue(SubSeq(s, 1, Len(s) - 1)) + (IndexIn(s[Len(s)], DigitChars) - 1)

\* pd.to_numeric(column, errors="coerce"), one cell
ToNumeric(c) ==
  CASE c.t = "num" -> c
    [] c.t = "str" ->
         IF IsDigits(c.v) THEN N(DigitsValue(c.v))
         ELSE IF Len(c.v) > 1 /\ c.v[1] = "-" /\ IsDigits(Tail(c.v))
              THEN N(0 - DigitsValue(Tail(c.v)))
              ELSE Null
    [] OTHER -> Null

\* pd.to_datetime(column, errors="coerce"), one cell
ToDatetime(c) ==
  CASE c.t = "ts" -> c
    [] c.t = "date" -> T(c.v, 0)
    [] c.t = "str" ->
         LET s == c.v
             tpos == IndexIn("T", s)
         IN IF Len(s) >= 2 /\ s[1] = "d" /\ tpos = 0 /\ IsDigits(Tail(s))
            THEN T(DigitsValue(Tail(s)), 0)
            ELSE IF Len(s) >= 4 /\ s[1] = "d" /\ tpos > 2 /\ tpos < Len(s)
                    /\ IsDigits(SubSeq(s, 2, tpos - 1))
                    /\ IsDigits(SubSeq(s, tpos + 1, Len(s)))
                 THEN T(DigitsValue(SubSeq(s, 2, tpos - 1)),
                        DigitsValue(SubSeq(s, tpos + 1, Len(s))))
                 ELSE Null
    [] OTHER -> Null

\* Series.dt.date, one cell
DtDate(c) == IF c.t = "ts" THEN D(c.v[1]) ELSE Null

\* Series.clip(lo, hi), one cell: NaN stays NaN
Clip(c, lo, hi) ==
  IF c.t # "num" THEN c
  ELSE IF c.v < lo THEN N(lo) ELSE IF c.v > hi THEN N(hi) ELSE c

\* Series.str.<method>, one cell: a non-string cell gives NaN
StrStripCell(c) == IF c.t = "str" THEN S(StrStrip(c.v)) ELSE Null
StrTitleCell(c) == IF c.t = "str" THEN S(StrTitle(c.v)) ELSE Null
StrLowerCell(c) == IF c.t = "str" THEN S(StrLower(c.v)) ELSE Null

\* round(n / d) to the nearest integer, ties to even (d > 0)
RoundDiv(n, d) ==
  LET q == n \div d
      r == n % d
  IN IF 2 * r < d THEN q
     ELSE IF 2 * r > d THEN q + 1
     ELSE IF q % 2 = 0 THEN q ELSE q + 1

(***************************************************************************)
(* include/transformations.py                                              *)
(***************************************************************************)
REQUIRED_COLUMNS ==
  {"order_id", "customer_id", "product", "category", "region",
   "quantity", "unit_price", "discount", "order_date", "status"}

\* A DataFrame: its columns and its rows in order, each row a function on the columns
DataFrame(cols, rows) == [columns |-> cols, rows |-> rows]

\* validate_schema: the set named by the ValueError, {} when nothing is raised
validate_schema(df) == REQUIRED_COLUMNS \ df.columns

\* drop_duplicates with keep="last"
DropDuplicatesKeepLast(rows) ==
  LET keep(i) == \A j \in (i + 1)..Len(rows) : rows[j]["order_id"] # rows[i]["order_id"]
      idx == {i \in 1..Len(rows) : keep(i)}
      RECURSIVE Build(_, _)
      Build(lo, hi) ==
        IF lo > hi THEN <<>>
        ELSE IF lo = hi THEN (IF lo \in idx THEN <<rows[lo]>> ELSE <<>>)
        ELSE Build(lo, (lo + hi) \div 2) \o Build(((lo + hi) \div 2) + 1, hi)
  IN Build(1, Len(rows))

\* df.drop_duplicates(subset=["order_id"]): the first row of each order_id is kept
\* (NaN counts as equal to NaN)
DropDuplicates(rows) ==
  LET keep(i) == \A j \in 1..(i - 1) : rows[j]["order_id"] # rows[i]["order_id"]
      idx == {i \in 1..Len(rows) : keep(i)}
      RECURSIVE Build(_, _)
      Build(lo, hi) ==
        IF lo > hi THEN <<>>
        ELSE IF lo = hi THEN (IF lo \in idx THEN <<rows[lo]>> ELSE <<>>)
        ELSE Build(lo, (lo + hi) \div 2) \o Build(((lo + hi) \div 2) + 1, hi)
  IN Build(1, Len(rows))

\* lines 54-57: the four coercions, on one row
CoerceRow(r) ==
  [r EXCEPT !["order_date"] = ToDatetime(@),
            !["quantity"] = ToNumeric(@),
            !["unit_price"] = ToNumeric(@),
            !["discount"] = Clip(ToNumeric(@), 0, 100)]

\* dropna that does not look at order_id
DropnaSubsetNoId == {"order_date", "quantity", "unit_price"}

DropnaSubset == {"order_id", "order_date", "quantity", "unit_price"}

\* df.dropna(subset=[...])
HasNullCritical(r) == \E c \in DropnaSubset : IsNull(r[c])
Dropna(rows) == SelectSeq(rows, LAMBDA r : ~HasNullCritical(r))

\* lines 67-70: text normalisation, on one row
NormaliseRow(r) ==
  [r EXCEPT !["region"] = StrTitleCell(StrStripCell(@)),
            !["category"] = StrTitleCell(StrStripCell(@)),
            !["product"] = StrStripCell(@),
            !["status"] = StrLowerCell(StrStripCell(@))]

\* lines 74-76: quantity * unit_price * (1 - discount), rounded to cents
Revenue(r) ==
  IF IsNull(r["quantity"]) \/ IsNull(r["unit_price"]) \/ IsNull(r["discount"])
  THEN Null
  ELSE N(RoundDiv(r["quantity"].v * r["unit_price"].v * (100 - r["discount"].v), 100))

\* lines 74-79 on one row: total_revenue added, order_date cast to a date
FinishRow(r) ==
  [c \in (DOMAIN r) \cup {"total_revenue"} |->
     IF c = "total_revenue" THEN Revenue(r)
     ELSE IF c = "order_date" THEN DtDate(r[c])
     ELSE r[c]]

\* the null drop done before the coercions instead of after them
CleanRowsDropFirst(rows) ==
  LET deduped == DropDuplicates(rows)
      kept == Dropna(deduped)
      coerced == [i \in 1..Len(kept) |-> CoerceRow(kept[i])]
  IN [i \in 1..Len(coerced) |-> FinishRow(NormaliseRow(coerced[i]))]

\* the rows of clean_and_transform's result, given a frame that has every column
CleanRows(rows) ==
  LET deduped == DropDuplicates(rows)
      coerced == [i \in 1..Len(deduped) |-> CoerceRow(deduped[i])]
      kept == Dropna(coerced)
  IN [i \in 1..Len(kept) |-> FinishRow(NormaliseRow(kept[i]))]

\* clean_and_transform: raised with the missing columns, or (cleaned_df, rows_skipped)
clean_and_transform(df) ==
  IF validate_schema(df) # {}
  THEN [raised |-> TRUE, missing |-> validate_schema(df),
        df |-> DataFrame({}, <<>>), rows_skipped |-> 0]
  ELSE LET out == CleanRows(df.rows)
       IN [raised |-> FALSE, missing |-> {},
           df |-> DataFrame(df.columns \cup {"total_revenue"}, out),
           rows_skipped |-> Len(df.rows) - Len(out)]


\* the (product, category) groups of df.groupby: a NaN key is left out
GroupKeys(rows) ==
  {<<rows[i]["product"], rows[i]["category"]>> : i \in 1..Len(rows)}
    \ {k \in {<<rows[i]["product"], rows[i]["category"]>> : i \in 1..Len(rows)} :
         IsNull(k[1]) \/ IsNull(k[2])}

RECURSIVE SumOver(_, _, _)
\* the sum of f over the part of its domain that lies in lo..hi
SumOver(f, lo, hi) ==
  IF lo > hi THEN 0
  ELSE IF lo = hi THEN (IF lo \in DOMAIN f THEN f[lo] ELSE 0)
  ELSE SumOver(f, lo, (lo + hi) \div 2) + SumOver(f, ((lo + hi) \div 2) + 1, hi)

SetMax(set) == CHOOSE x \in set : \A y \in set : y <= x

\* build_product_aggregations: one row per (product, category); sum and mean skip NaN
build_product_aggregations(df) ==
  {LET members == {i \in 1..Len(df.rows) :
                     <<df.rows[i]["product"], df.rows[i]["category"]>> = k}
       withRev == {i \in members : ~IsNull(df.rows[i]["total_revenue"])}
       withDisc == {i \in members : ~IsNull(df.rows[i]["discount"])}
   IN [product |-> k[1], category |-> k[2],
       total_units_sold |->
         SumOver([i \in members |-> df.rows[i]["quantity"].v], 1, Len(df.rows)),
       total_revenue |->
         SumOver([i \in withRev |-> df.rows[i]["total_revenue"].v], 1, Len(df.rows)),
       avg_discount |->
         IF withDisc = {} THEN Null
         ELSE N(RoundDiv(100 * SumOver([i \in withDisc |-> df.rows[i]["discount"].v],
                                       1, Len(df.rows)),
                         Cardinality(withDisc))),
       last_purchased_date |->
         SetMax({df.rows[i]["order_date"].v : i \in members})]
   : k \in GroupKeys(df.rows)}

(***************************************************************************)
(* include/db_loader.py                                                    *)
(***************************************************************************)
\* rows per statement of psycopg2.extras.execute_values
page_size == 500

\* the columns upsert_orders writes
OrderColumns ==
  {"order_id", "customer_id", "product", "category", "region",
   "quantity", "unit_price", "discount", "order_date", "status"}

\* INSERT ... ON CONFLICT DO UPDATE refuses to touch one row twice in one statement:
\* whether the values of one statement hold a key twice
AffectsRowTwice(keys) == \E i, j \in 1..Len(keys) : i # j /\ keys[i] = keys[j]

\* cur.rowcount after execute_values: the rows of the last statement it ran
Rowcount(n) == IF n = 0 THEN 0 ELSE ((n - 1) % page_size) + 1

\* ON CONFLICT (order_id) DO NOTHING
upsert_orders_do_nothing(orders, df) ==
  LET records == [i \in 1..Len(df.rows) |-> [c \in OrderColumns |-> df.rows[i][c]]]
      stored == {o["order_id"] : o \in orders}
  IN [raised |-> FALSE,
      table |-> orders \cup {records[i] : i \in {j \in 1..Len(records) :
                                                  records[j]["order_id"] \notin stored}},
      rows_inserted |-> Rowcount(Len(records))]

\* upsert_orders: the rows of df written over the rows of the same order_id
upsert_orders(orders, df) ==
  IF Len(df.rows) = 0
  THEN [raised |-> FALSE, table |-> orders, rows_inserted |-> 0]
  ELSE LET records == [i \in 1..Len(df.rows) |->
                         [c \in OrderColumns |-> df.rows[i][c]]]
           ids == {records[i]["order_id"] : i \in 1..Len(records)}
       IN IF AffectsRowTwice([i \in 1..Len(records) |-> records[i]["order_id"]])
          THEN [raised |-> TRUE, table |-> orders, rows_inserted |-> 0]
          ELSE [raised |-> FALSE,
                table |-> {o \in orders : o["order_id"] \notin ids}
                          \cup {records[i] : i \in 1..Len(records)},
                rows_inserted |-> Rowcount(Len(records))]

\* a DO UPDATE SET clause that averages the stored and the incoming discount
MergeProductBlend(old, new) ==
  [product |-> old.product,
   category |-> new.category,
   total_units_sold |-> old.total_units_sold + new.total_units_sold,
   total_revenue |-> old.total_revenue + new.total_revenue,
   avg_discount |->
     IF IsNull(old.avg_discount) \/ IsNull(new.avg_discount) THEN new.avg_discount
     ELSE N(RoundDiv(old.avg_discount.v + new.avg_discount.v, 2)),
   last_purchased_date |->
     IF old.last_purchased_date >= new.last_purchased_date
     THEN old.last_purchased_date ELSE new.last_purchased_date]

\* the DO UPDATE SET clause of upsert_purchased_products, for one stored row
MergeProduct(old, new) ==
  [product |-> old.product,
   category |-> new.category,
   total_units_sold |-> old.total_units_sold + new.total_units_sold,
   total_revenue |-> old.total_revenue + new.total_revenue,
   avg_discount |-> new.avg_discount,
   last_purchased_date |->
     IF old.last_purchased_date >= new.last_purchased_date
     THEN old.last_purchased_date ELSE new.last_purchased_date]

\* upsert_purchased_products: ON CONFLICT (product)
upsert_purchased_products(products, agg) ==
  IF agg = {}
  THEN [raised |-> FALSE, table |-> products]
  ELSE IF \E a, b \in agg : a # b /\ a.product = b.product
       THEN [raised |-> TRUE, table |-> products]
       ELSE [raised |-> FALSE,
             table |-> {p \in products : \A a \in agg : a.product # p.product}
                       \cup {IF \E p \in products : p.product = a.product
                             THEN MergeProduct(CHOOSE p \in products :
                                                 p.product = a.product, a)
                             ELSE a : a \in agg}]

\* log_pipeline_run: one audit row appended
log_pipeline_run(runs, dag_run_id, file_processed, rows_inserted, rows_skipped, status) ==
  Append(runs, [dag_run_id |-> dag_run_id, file_processed |-> file_processed,
                rows_inserted |-> rows_inserted, rows_skipped |-> rows_skipped,
                status |-> status])

\* a context manager that commits on every exit
get_connection_always_commits(before, written, raised) == written

\* get_connection: what the database holds when the with-block is left, given what it
\* held on entry, what the block's statements wrote and whether the block raised
get_connection(before, written, raised) == IF raised THEN before ELSE written

(***************************************************************************)
(* Input values                                                            *)
(***************************************************************************)
\* longest DataFrame given to clean_and_transform on its own
MaxRows == 2

Str_o1 == <<"o","1">>
Str_o2 == <<"o","2">>
Str_c1 == <<"c","1">>
Str_c2 == <<"c","2">>
Str_completed == <<"c","o","m","p","l","e","t","e","d">>

\* a well-formed CSV row, as pd.read_csv leaves it before any coercion
BaseRow(id) ==
  [order_id |-> S(id), customer_id |-> S(Str_c1),
   product |-> S(<<"t","v">>), category |-> S(<<"h","i"," ","f","i">>),
   region |-> S(<<"e","u">>), quantity |-> S(<<"2">>),
   unit_price |-> S(<<"9","9","5">>), discount |-> S(<<"1","0">>),
   order_date |-> S(<<"d","3">>), status |-> S(Str_completed)]

\* the values each column takes in the inputs: well-formed, malformed and missing
ColumnValues ==
  [order_id |-> {Null},
   customer_id |-> {S(Str_c2)},
   product |-> {S(<<" ","t","v"," ">>), S(<<"p","c">>), Null},
   category |-> {S(<<"H","I"," ","F","I"," ">>), S(<<"o","n","e">>), Null},
   region |-> {S(<<" ","E","U">>), S(<<"n"," ","a">>), Null},
   quantity |-> {S(<<"5">>), S(<<"0">>), S(<<"-","1">>), S(<<"x">>), N(3), Null},
   unit_price |-> {S(<<"1","0","0">>), S(<<"0">>), S(<<"x">>), Null},
   discount |-> {S(<<"0">>), S(<<"1","0","0">>), S(<<"1","5","0">>),
                 S(<<"-","2","0">>), S(<<"x">>), Null},
   order_date |-> {S(<<"d","1">>), S(<<"d","5","T","7">>), S(<<"3">>),
                   S(<<"x">>), Null},
   status |-> {S(<<"C","o","m","p","l","e","t","e","d"," ">>),
               S(<<"p","e","n","d","i","n","g">>), Null}]

\* the well-formed rows of two orders, and every row that differs from the first
\* in one column
RawRows ==
  {BaseRow(Str_o1), BaseRow(Str_o2)}
  \cup UNION {{[BaseRow(Str_o1) EXCEPT ![c] = v] : v \in ColumnValues[c]} :
                c \in REQUIRED_COLUMNS}

\* the sequences over set of length at most n
SeqsUpTo(set, n) == UNION {[1..k -> set] : k \in 0..n}

\* the column sets of the inputs: complete, with an extra column, and incomplete
ColumnSets ==
  {REQUIRED_COLUMNS, REQUIRED_COLUMNS \cup {"notes"},
   REQUIRED_COLUMNS \ {"discount"}, {"order_id", "product"}}

\* pd.read_csv of a file with the given header: each row holds the header's columns
ReadCsv(cols, rows) ==
  DataFrame(cols,
            [i \in 1..Len(rows) |->
               [c \in cols |-> IF c \in DOMAIN rows[i] THEN rows[i][c] ELSE Null]])

(***************************************************************************)
(* State                                                                   *)
(***************************************************************************)
VARIABLES
  raw_df,            \* the DataFrame given to clean_and_transform on its own
  result,            \* what clean_and_transform returned for raw_df, or NotRun
  again,             \* what it returned for result's DataFrame, or NotRun
  raw_bucket,        \* MinIO raw-data bucket: a set of objects [key, body]
  processed_bucket,  \* MinIO processed-data bucket
  orders,            \* PostgreSQL table orders (committed rows)
  purchased_products,\* PostgreSQL table purchased_products
  pipeline_runs,     \* PostgreSQL table pipeline_runs, in insertion order
  dag_runs,          \* Airflow: the state of each DAG run, in starting order
  task,              \* Airflow: the task of the active run that is up next, or "none"
  try_number,        \* Airflow: failed attempts of that task so far
  xcom,              \* Airflow: the XCom values of the active run
  ti,                \* Airflow: the outcome of the latest task attempt
  committed          \* history: the cleaned DataFrame of every committed load

clean_vars == <<raw_df, result, again>>
store_vars == <<raw_bucket, processed_bucket>>
db_vars == <<orders, purchased_products, pipeline_runs, committed>>
airflow_vars == <<dag_runs, task, try_number, xcom, ti>>
vars == <<clean_vars, store_vars, db_vars, airflow_vars>>

NotRun == [raised |-> FALSE, missing |-> {}, df |-> DataFrame({}, <<>>),
           rows_skipped |-> -1]

(***************************************************************************)
(* Pipeline inputs and Airflow bookkeeping                                 *)
(***************************************************************************)
\* DEFAULT_ARGS["retries"]
Retries == 3

\* objects ever uploaded to the raw-data bucket
MaxUploads == 2
\* DAG runs the scheduler starts
MaxRuns == 2

\* CURRENT_DATE, as a day number of the order dates
CurrentDate == 4

\* order o1 as another file restates it: every column but the key, the product and
\* the category differs, and the order date is after CurrentDate
RestatedRow ==
  [BaseRow(Str_o1) EXCEPT
     !["customer_id"] = S(Str_c2), !["region"] = S(<<"n"," ","a">>),
     !["quantity"] = S(<<"5">>), !["unit_price"] = S(<<"1","0","0">>),
     !["discount"] = S(<<"5","0">>), !["order_date"] = S(<<"d","5">>),
     !["status"] = S(<<"p","e","n","d","i","n","g">>)]

\* single-column departures from the first order: a return, the product under
\* another category, and a missing order identifier
Departures ==
  {[BaseRow(Str_o1) EXCEPT ![cv[1]] = cv[2]] :
     cv \in {<<"quantity", S(<<"-","1">>)>>,
             <<"category", S(<<"o","n","e">>)>>, <<"order_id", Null>>}}

\* the rows uploaded files are made of
PipelineRows == {BaseRow(Str_o1), BaseRow(Str_o2), RestatedRow} \cup Departures

\* the bodies of uploaded files.  Under a complete header: one row, or the
\* well-formed second order followed by a departure.  With an extra column: one
\* well-formed row.  With a column missing: the header alone, or one row
PipelineFiles ==
  {ReadCsv(REQUIRED_COLUMNS, <<r>>) : r \in PipelineRows}
  \cup {ReadCsv(REQUIRED_COLUMNS, <<BaseRow(Str_o2), r>>) : r \in Departures}
  \cup {ReadCsv(REQUIRED_COLUMNS \cup {"notes"}, <<BaseRow(Str_o1)>>)}
  \cup {ReadCsv(REQUIRED_COLUMNS \ {"discount"}, rows) :
          rows \in {<<>>, <<BaseRow(Str_o1)>>}}

NoError == [type |-> "none", missing |-> {}]
EmptyFrame == DataFrame({}, <<>>)
NoXCom == [object_key |-> 0, local_path |-> EmptyFrame,
           cleaned_path |-> EmptyFrame, rows_skipped |-> 0]
NoTi == [dag_run |-> 0, task |-> "none", try_number |-> 0,
         state |-> "none", error |-> NoError]

InitCleanIdle == raw_df = EmptyFrame /\ result = NotRun /\ again = NotRun

InitPipeline ==
  /\ raw_bucket = {}
  /\ processed_bucket = {}
  /\ orders = {}
  /\ purchased_products = {}
  /\ pipeline_runs = <<>>
  /\ committed = <<>>
  /\ dag_runs = <<>>
  /\ task = "none"
  /\ try_number = 0
  /\ xcom = NoXCom
  /\ ti = NoTi

(***************************************************************************)
(* clean_and_transform on its own                                          *)
(***************************************************************************)
InitClean ==
  /\ raw_df \in {ReadCsv(REQUIRED_COLUMNS, rows) : rows \in SeqsUpTo(RawRows, MaxRows)}
                \cup {ReadCsv(cols, rows) :
                        cols \in ColumnSets \ {REQUIRED_COLUMNS},
                        rows \in SeqsUpTo({BaseRow(Str_o1), RestatedRow}, MaxRows)}
  /\ result = NotRun
  /\ again = NotRun
  /\ InitPipeline

\* clean_and_transform(raw_df)
Transform ==
  /\ result = NotRun
  /\ result' = clean_and_transform(raw_df)
  /\ UNCHANGED <<raw_df, again, store_vars, db_vars, airflow_vars>>

\* clean_and_transform applied to its own output
Retransform ==
  /\ result # NotRun
  /\ ~result.raised
  /\ again = NotRun
  /\ again' = clean_and_transform(result.df)
  /\ UNCHANGED <<raw_df, result, store_vars, db_vars, airflow_vars>>

NextClean == Transform \/ Retransform

SpecClean == InitClean /\ [][NextClean]_vars

(***************************************************************************)
(* dags/sales_pipeline_dag.py and data-generator/generate_data.py          *)
(***************************************************************************)
Keys(bucket) == {o.key : o \in bucket}
Body(bucket, key) == (CHOOSE o \in bucket : o.key = key).body
PutObject(bucket, key, body) ==
  {o \in bucket : o.key # key} \cup {[key |-> key, body |-> body]}
DeleteObject(bucket, key) == {o \in bucket : o.key # key}

\* upload_to_minio: the key is the upload's timestamp, so keys grow
UploadToMinio ==
  /\ Cardinality(Keys(raw_bucket) \cup Keys(processed_bucket)) < MaxUploads
  /\ \E body \in PipelineFiles :
       raw_bucket' = PutObject(raw_bucket,
                               Cardinality(Keys(raw_bucket) \cup Keys(processed_bucket)) + 1,
                               body)
  /\ UNCHANGED <<clean_vars, processed_bucket, db_vars, airflow_vars>>

\* the scheduler starts a run when none is active (max_active_runs=1)
StartRun ==
  /\ task = "none"
  /\ Len(dag_runs) < MaxRuns
  /\ dag_runs' = Append(dag_runs, "running")
  /\ task' = "download_from_minio"
  /\ try_number' = 0
  /\ xcom' = NoXCom
  /\ UNCHANGED <<clean_vars, store_vars, db_vars, ti>>

Attempt(state, error) ==
  [dag_run |-> Len(dag_runs), task |-> task, try_number |-> try_number + 1,
   state |-> state, error |-> error]

\* the task returned: the next task is up, or the run ends in success
Succeed(next) ==
  /\ task' = next
  /\ try_number' = 0
  /\ ti' = Attempt("success", NoError)
  /\ dag_runs' = IF next = "none"
                 THEN [dag_runs EXCEPT ![Len(dag_runs)] = "success"]
                 ELSE dag_runs

\* the task raised: it is retried up to Retries times, then the run fails and the
\* tasks after it never run
Fail(error) ==
  IF try_number < Retries
  THEN /\ try_number' = try_number + 1
       /\ ti' = Attempt("up_for_retry", error)
       /\ UNCHANGED <<task, dag_runs>>
  ELSE /\ task' = "none"
       /\ try_number' = 0
       /\ ti' = Attempt("failed", error)
       /\ dag_runs' = [dag_runs EXCEPT ![Len(dag_runs)] = "failed"]

\* _list_pending_files: the keys of the raw-data bucket, in order
ListPendingFiles == Keys(raw_bucket)
FirstKey(keys) == CHOOSE k \in keys : \A j \in keys : k <= j

DownloadFaults == {"none", "s3"}

download_from_minio(fault) ==
  /\ task = "download_from_minio"
  /\ IF ListPendingFiles = {}
     THEN Fail([type |-> "ValueError: no files", missing |-> {}]) /\ UNCHANGED xcom
     ELSE IF fault = "s3"
          THEN Fail([type |-> "ClientError", missing |-> {}]) /\ UNCHANGED xcom
          ELSE /\ xcom' = [xcom EXCEPT
                             !.object_key = FirstKey(ListPendingFiles),
                             !.local_path = Body(raw_bucket, FirstKey(ListPendingFiles))]
               /\ Succeed("validate_csv")
  /\ UNCHANGED <<clean_vars, store_vars, db_vars>>

\* the set difference taken the wrong way round
validate_csv_error_reversed(df) ==
  IF Len(df.rows) = 0 \/ df.columns = {}
  THEN [type |-> "ValueError: empty", missing |-> {}]
  ELSE IF df.columns \ REQUIRED_COLUMNS # {}
       THEN [type |-> "ValueError: missing columns",
             missing |-> df.columns \ REQUIRED_COLUMNS]
       ELSE NoError

\* validate_csv: the error it raises for df, NoError when it returns
validate_csv_error(df) ==
  IF Len(df.rows) = 0 \/ df.columns = {}
  THEN [type |-> "ValueError: empty", missing |-> {}]
  ELSE IF REQUIRED_COLUMNS \ df.columns # {}
       THEN [type |-> "ValueError: missing columns",
             missing |-> REQUIRED_COLUMNS \ df.columns]
       ELSE NoError

validate_csv ==
  /\ task = "validate_csv"
  /\ IF validate_csv_error(xcom.local_path) # NoError
     THEN Fail(validate_csv_error(xcom.local_path))
     ELSE Succeed("transform_data")
  /\ UNCHANGED <<clean_vars, store_vars, db_vars, xcom>>

\* a task graph in which the archive follows the transformation
transform_data_then_archive ==
  /\ task = "transform_data"
  /\ LET r == clean_and_transform(xcom.local_path)
     IN IF r.raised
        THEN /\ Fail([type |-> "ValueError: missing columns", missing |-> r.missing])
             /\ UNCHANGED xcom
        ELSE /\ xcom' = [xcom EXCEPT !.cleaned_path = r.df,
                                     !.rows_skipped = r.rows_skipped]
             /\ Succeed("archive_file")
  /\ UNCHANGED <<clean_vars, store_vars, db_vars>>

transform_data ==
  /\ task = "transform_data"
  /\ LET r == clean_and_transform(xcom.local_path)
     IN IF r.raised
        THEN /\ Fail([type |-> "ValueError: missing columns", missing |-> r.missing])
             /\ UNCHANGED xcom
        ELSE /\ xcom' = [xcom EXCEPT !.cleaned_path = r.df,
                                     !.rows_skipped = r.rows_skipped]
             /\ Succeed("load_to_postgres")
  /\ UNCHANGED <<clean_vars, store_vars, db_vars>>

\* where the database or the connection fails during a load, if anywhere
LoadFaults == {"none", "connect", "orders", "products", "log", "commit"}

\* the body of load_to_postgres on database db: what the database holds afterwards,
\* whether it raised, and the count it logged
LoadResult(db, df, rows_skipped, object_key, dag_run_id, fault) ==
  LET agg == build_product_aggregations(df)
      o == upsert_orders(db.orders, df)
      raised_o == fault = "orders" \/ o.raised
      db1 == IF raised_o THEN db ELSE [db EXCEPT !.orders = o.table]
      p == upsert_purchased_products(db1.purchased_products, agg)
      raised_p == raised_o \/ fault = "products" \/ p.raised
      db2 == IF raised_p THEN db1 ELSE [db1 EXCEPT !.purchased_products = p.table]
      raised_l == raised_p \/ fault = "log"
      db3 == IF raised_l THEN db2
             ELSE [db2 EXCEPT !.pipeline_runs =
                     log_pipeline_run(@, dag_run_id, object_key, o.rows_inserted,
                                      rows_skipped, "success")]
      raised == raised_l \/ fault = "commit"
  IN IF fault = "connect"
     THEN [raised |-> TRUE, db |-> db,
           error |-> [type |-> "OperationalError", missing |-> {}]]
     ELSE [raised |-> raised,
           db |-> get_connection(db, db3, raised),
           error |-> IF ~raised THEN NoError
                     ELSE IF (o.raised /\ fault # "orders")
                             \/ (~raised_o /\ p.raised /\ fault # "products")
                          THEN [type |-> "CardinalityViolation", missing |-> {}]
                          ELSE [type |-> "OperationalError", missing |-> {}]]

load_to_postgres(fault) ==
  /\ task = "load_to_postgres"
  /\ LET r == LoadResult([orders |-> orders,
                          purchased_products |-> purchased_products,
                          pipeline_runs |-> pipeline_runs],
                         xcom.cleaned_path, xcom.rows_skipped, xcom.object_key,
                         Len(dag_runs), fault)
     IN /\ orders' = r.db.orders
        /\ purchased_products' = r.db.purchased_products
        /\ pipeline_runs' = r.db.pipeline_runs
        /\ IF r.raised
           THEN Fail(r.error) /\ UNCHANGED committed
           ELSE /\ Succeed("archive_file")
                /\ committed' = Append(committed, xcom.cleaned_path)
  /\ UNCHANGED <<clean_vars, store_vars, xcom>>

\* where the object store fails during archive_file, if anywhere
ArchiveFaults == {"none", "copy", "delete"}

\* an archive that deletes from raw-data before it copies to processed-data
archive_file_delete_first(fault) ==
  /\ task = "archive_file"
  /\ IF fault = "delete" \/ xcom.object_key \notin Keys(raw_bucket)
     THEN /\ Fail([type |-> "ClientError", missing |-> {}])
          /\ UNCHANGED store_vars
     ELSE /\ raw_bucket' = DeleteObject(raw_bucket, xcom.object_key)
          /\ IF fault = "copy"
             THEN /\ Fail([type |-> "ClientError", missing |-> {}])
                  /\ UNCHANGED processed_bucket
             ELSE /\ processed_bucket' = PutObject(processed_bucket, xcom.object_key,
                                                   Body(raw_bucket, xcom.object_key))
                  /\ Succeed("none")
  /\ UNCHANGED <<clean_vars, db_vars, xcom>>

archive_file(fault) ==
  /\ task = "archive_file"
  /\ IF fault = "copy" \/ xcom.object_key \notin Keys(raw_bucket)
     THEN /\ Fail([type |-> "ClientError", missing |-> {}])
          /\ UNCHANGED store_vars
     ELSE /\ processed_bucket' = PutObject(processed_bucket, xcom.object_key,
                                           Body(raw_bucket, xcom.object_key))
          /\ IF fault = "delete"
             THEN /\ Fail([type |-> "ClientError", missing |-> {}])
                  /\ UNCHANGED raw_bucket
             ELSE /\ raw_bucket' = DeleteObject(raw_bucket, xcom.object_key)
                  /\ Succeed("none")
  /\ UNCHANGED <<clean_vars, db_vars, xcom>>

Init == InitCleanIdle /\ InitPipeline

Next ==
  \/ UploadToMinio
  \/ StartRun
  \/ \E fault \in DownloadFaults : download_from_minio(fault)
  \/ validate_csv
  \/ transform_data
  \/ \E fault \in LoadFaults : load_to_postgres(fault)
  \/ \E fault \in ArchiveFaults : archive_file(fault)

Spec == Init /\ [][Next]_vars

(***************************************************************************)
(* The load of one generated file, of any size around one execute page     *)
(***************************************************************************)
\* rows of the smallest generated files
MaxSmallBatch == 6
\* rows of the largest generated file, beyond one page of execute_values
MaxOverPage == 1

\* settings.generator_num_rows: the sizes of the generated files
BatchSizes == 1..MaxSmallBatch \cup page_size..(page_size + MaxOverPage)

RECURSIVE Digits(_)
\* the decimal digits of n
Digits(n) ==
  IF n < 10 THEN <<DigitChars[n + 1]>>
  ELSE Append(Digits(n \div 10), DigitChars[(n % 10) + 1])

\* generate_dataframe(n): n well-formed rows, each with an order identifier of its own
GeneratedFile(n) ==
  ReadCsv(REQUIRED_COLUMNS, [i \in 1..n |-> BaseRow(<<"o">> \o Digits(i))])

\* what an earlier run left behind: nothing, or the committed load and the archive
\* of a file that held order o1 with other values
EarlierRuns ==
  {[db |-> [orders |-> {}, purchased_products |-> {}, pipeline_runs |-> <<>>],
    committed |-> <<>>, dag_runs |-> <<>>, archived |-> {}]}
  \cup
  {LET df == clean_and_transform(ReadCsv(REQUIRED_COLUMNS, <<RestatedRow>>)).df
   IN [db |-> LoadResult([orders |-> {}, purchased_products |-> {},
                          pipeline_runs |-> <<>>], df, 0, 0, 1, "none").db,
       committed |-> <<df>>, dag_runs |-> <<"success">>,
       archived |-> {[key |-> 0, body |-> ReadCsv(REQUIRED_COLUMNS, <<RestatedRow>>)]}]}

\* a run that has downloaded, validated and transformed a generated file and is
\* about to load it
InitLoad ==
  /\ InitCleanIdle
  /\ \E n \in BatchSizes, e \in EarlierRuns :
       LET file == GeneratedFile(n)
           r == clean_and_transform(file)
       IN /\ raw_bucket = {[key |-> 1, body |-> file]}
          /\ processed_bucket = e.archived
          /\ orders = e.db.orders
          /\ purchased_products = e.db.purchased_products
          /\ pipeline_runs = e.db.pipeline_runs
          /\ committed = e.committed
          /\ dag_runs = Append(e.dag_runs, "running")
          /\ task = "load_to_postgres"
          /\ try_number = 0
          /\ xcom = [object_key |-> 1, local_path |-> file,
                     cleaned_path |-> r.df, rows_skipped |-> r.rows_skipped]
          /\ ti = [dag_run |-> Len(e.dag_runs) + 1, task |-> "transform_data",
                   try_number |-> 1, state |-> "success", error |-> NoError]

NextLoad ==
  \/ \E fault \in LoadFaults : load_to_postgres(fault)
  \/ \E fault \in ArchiveFaults : archive_file(fault)

SpecLoad == InitLoad /\ [][NextLoad]_vars

(***************************************************************************)
(* Properties of clean_and_transform                                       *)
(***************************************************************************)
Ran == result # NotRun /\ ~result.raised

\* the indices of raw_df's rows that carry order identifier id
Occurrences(id) == {i \in 1..Len(raw_df.rows) : raw_df.rows[i]["order_id"] = id}
First(set) == CHOOSE i \in set : \A j \in set : i <= j

\* the order identifiers that two or more rows of raw_df share
SharedIds ==
  {id \in {raw_df.rows[i]["order_id"] : i \in 1..Len(raw_df.rows)} :
     ~IsNull(id) /\ Cardinality(Occurrences(id)) >= 2}

OutputRowsOf(id) ==
  {i \in 1..Len(result.df.rows) : result.df.rows[i]["order_id"] = id}

\* the first occurrence of id, cleaned on its own
CleanedFirst(id) == CleanRows(<<raw_df.rows[First(Occurrences(id))]>>)

\* C5 as stated: an order identifier shared by two or more input rows has exactly
\* one output row, and that row is the (cleaned) first occurrence.
C5_AlwaysOneRow ==
  Ran => \A id \in SharedIds :
           /\ Cardinality(OutputRowsOf(id)) = 1
           /\ CleanedFirst(id) = <<result.df.rows[First(OutputRowsOf(id))]>>

\* C5 amended: a shared order identifier has at most one output row; it has one
\* exactly when its first occurrence survives the null drop (its order date,
\* quantity and unit price coerce), and then the row is the cleaned first
\* occurrence; when the first occurrence is dropped no later occurrence replaces it.
C5_FirstWriteWins ==
  Ran => \A id \in SharedIds :
           /\ Cardinality(OutputRowsOf(id)) <= 1
           /\ (OutputRowsOf(id) # {})
                <=> ~HasNullCritical(CoerceRow(raw_df.rows[First(Occurrences(id))]))
           /\ \A i \in OutputRowsOf(id) : CleanedFirst(id) = <<result.df.rows[i]>>

\* two rows share an identifier and differ, and the output holds the first
C5_Witness ==
  /\ Ran
  /\ \E id \in SharedIds :
       /\ OutputRowsOf(id) # {}
       /\ \E i, j \in Occurrences(id) :
            /\ i < j
            /\ raw_df.rows[i] # raw_df.rows[j]
            /\ ~HasNullCritical(CoerceRow(raw_df.rows[j]))

\* C8 as stated: every output row has a discount within [0,1] (0..100 hundredths).
C8_DiscountInRange ==
  Ran => \A i \in 1..Len(result.df.rows) :
           LET d == result.df.rows[i]["discount"]
           IN d.t = "num" /\ 0 <= d.v /\ d.v <= 100

\* C9: clean_and_transform applied to its own output returns the same cleaned
\* DataFrame and zero rows skipped.
C9_Idempotent ==
  (again # NotRun) =>
     /\ ~again.raised
     /\ again.df.rows = result.df.rows
     /\ again.df.columns = result.df.columns
     /\ again.rows_skipped = 0

\* a second pass over an output whose first pass dropped a row and rewrote text
C9_Witness ==
  /\ again # NotRun
  /\ result.rows_skipped > 0
  /\ \E i \in 1..Len(result.df.rows) : \E j \in 1..Len(raw_df.rows) :
       /\ result.df.rows[i]["order_id"] = raw_df.rows[j]["order_id"]
       /\ result.df.rows[i]["category"] # raw_df.rows[j]["category"]
       /\ result.df.rows[i]["quantity"] # raw_df.rows[j]["quantity"]


(***************************************************************************)
(* Properties of the pipeline                                              *)
(***************************************************************************)
\* this step is an attempt of the named task
Attempted(name) == task = name /\ ti' # ti

\* this step commits a load
Commits == Len(committed') > Len(committed)

Stored(table, id) == {o \in table : o["order_id"] = id}
ProductRows(table, product) == {p \in table : p.product = product}

\* C1: a load attempt that raises leaves orders, purchased_products and
\* pipeline_runs as they were; an attempt that adds an audit row also leaves the
\* rows of its batch in orders and a row for each aggregated product in
\* purchased_products; no other step touches the three tables.
C1_LoadAtomic ==
  [][/\ (Attempted("load_to_postgres") /\ ti'.state # "success")
          => /\ orders' = orders
             /\ purchased_products' = purchased_products
             /\ pipeline_runs' = pipeline_runs
     /\ (pipeline_runs' # pipeline_runs)
          => /\ Attempted("load_to_postgres") /\ ti'.state = "success"
             /\ pipeline_runs' = Append(pipeline_runs, pipeline_runs'[Len(pipeline_runs')])
             /\ \A i \in 1..Len(xcom.cleaned_path.rows) :
                  [c \in OrderColumns |-> xcom.cleaned_path.rows[i][c]] \in orders'
             /\ \A a \in build_product_aggregations(xcom.cleaned_path) :
                  ProductRows(purchased_products', a.product) # {}
     /\ (orders' # orders \/ purchased_products' # purchased_products)
          => pipeline_runs' # pipeline_runs]_vars

\* upsert_purchased_products raised after upsert_orders had written rows, and the
\* rows are not in orders
C1_Witness ==
  /\ ti.task = "load_to_postgres"
  /\ ti.state \in {"up_for_retry", "failed"}
  /\ ti.error.type = "CardinalityViolation"
  /\ Len(xcom.cleaned_path.rows) > 0
  /\ \A i \in 1..Len(xcom.cleaned_path.rows) :
       [c \in OrderColumns |-> xcom.cleaned_path.rows[i][c]] \notin orders

\* C2 as stated: loading the cleaned batch of the latest committed load once more
\* leaves orders and purchased_products as they are.
C2_ReloadChangesNothing ==
  [][(/\ Commits
      /\ Len(committed) > 0
      /\ committed[Len(committed)] = xcom.cleaned_path)
       => /\ orders' = orders
          /\ purchased_products' = purchased_products]_vars

\* C3: a committed load leaves, for each aggregation row, one stored row of that
\* product: the sums of the stored and the incoming units and revenue, the incoming
\* average discount and the later of the two dates when a row was stored, and the
\* incoming row itself when none was.
C3_Accumulates ==
  [][Commits =>
       \A a \in build_product_aggregations(xcom.cleaned_path) :
         /\ Cardinality(ProductRows(purchased_products', a.product)) = 1
         /\ \A new \in ProductRows(purchased_products', a.product) :
              IF ProductRows(purchased_products, a.product) = {}
              THEN new = a
              ELSE \A old \in ProductRows(purchased_products, a.product) :
                     /\ new.total_units_sold = old.total_units_sold + a.total_units_sold
                     /\ new.total_revenue = old.total_revenue + a.total_revenue
                     /\ new.avg_discount = a.avg_discount
                     /\ new.last_purchased_date
                          = SetMax({old.last_purchased_date, a.last_purchased_date})]_vars

\* two committed loads of one product with different average discounts and dates
C3_Witness ==
  /\ Len(committed) = 2
  /\ \E a \in build_product_aggregations(committed[1]) :
       \E b \in build_product_aggregations(committed[2]) :
         /\ a.product = b.product
         /\ a.avg_discount # b.avg_discount
         /\ a.last_purchased_date > b.last_purchased_date
         /\ \E p \in purchased_products :
              /\ p.product = a.product
              /\ p.total_units_sold = a.total_units_sold + b.total_units_sold
              /\ p.avg_discount = b.avg_discount

\* the order identifiers of the committed loads
LoadedIds ==
  UNION {{committed[n].rows[i]["order_id"] : i \in 1..Len(committed[n].rows)} :
           n \in 1..Len(committed)}

\* the row of id in the latest committed load that holds one, as upsert_orders writes it
LatestLoaded(id) ==
  LET n == SetMax({m \in 1..Len(committed) :
                     \E i \in 1..Len(committed[m].rows) :
                       committed[m].rows[i]["order_id"] = id})
      i == CHOOSE j \in 1..Len(committed[n].rows) : committed[n].rows[j]["order_id"] = id
  IN [c \in OrderColumns |-> committed[n].rows[i][c]]

\* C4: orders holds exactly one row per order identifier of the committed loads,
\* with the values of the latest committed load that held the identifier.
C4_LatestLoadWins ==
  /\ {o["order_id"] : o \in orders} = LoadedIds
  /\ \A id \in LoadedIds : Stored(orders, id) = {LatestLoaded(id)}

\* an order loaded twice with different values
C4_Witness ==
  /\ Len(committed) = 2
  /\ \E i \in 1..Len(committed[1].rows) : \E j \in 1..Len(committed[2].rows) :
       /\ committed[1].rows[i]["order_id"] = committed[2].rows[j]["order_id"]
       /\ committed[1].rows[i]["quantity"] # committed[2].rows[j]["quantity"]
       /\ committed[1].rows[i]["customer_id"] # committed[2].rows[j]["customer_id"]


\* the required columns the downloaded file lacks
MissingColumns == REQUIRED_COLUMNS \ xcom.local_path.columns

\* C6 as stated: validation of a file that lacks required columns raises an error
\* naming exactly the missing columns.
C6_AlwaysNamesMissing ==
  [][(Attempted("validate_csv") /\ MissingColumns # {})
       => /\ ti'.state # "success"
          /\ ti'.error.type = "ValueError: missing columns"
          /\ ti'.error.missing = MissingColumns]_vars

\* C6 amended: validation of a file that lacks required columns raises; the error
\* names exactly the missing columns when the file has rows and is the empty-file
\* error when it has none; the run goes no further than validate_csv, so orders,
\* purchased_products, pipeline_runs and the processed-data bucket stay as they
\* are and the object stays in the raw-data bucket.
C6_SchemaErrorAborts ==
  [][(task = "validate_csv" /\ MissingColumns # {})
       => /\ orders' = orders
          /\ purchased_products' = purchased_products
          /\ pipeline_runs' = pipeline_runs
          /\ processed_bucket' = processed_bucket
          /\ xcom.object_key \in Keys(raw_bucket')
          /\ task' \in {"validate_csv", "none"}
          /\ (ti' # ti)
               => /\ ti'.state # "success"
                  /\ ti'.error =
                       IF Len(xcom.local_path.rows) = 0
                       THEN [type |-> "ValueError: empty", missing |-> {}]
                       ELSE [type |-> "ValueError: missing columns",
                             missing |-> MissingColumns]]_vars

\* a run that failed in validate_csv after its retries, naming missing columns
C6_Witness ==
  /\ ti.task = "validate_csv"
  /\ ti.state = "failed"
  /\ ti.try_number = Retries + 1
  /\ ti.error.missing # {}
  /\ dag_runs[ti.dag_run] = "failed"
  /\ xcom.object_key \in Keys(raw_bucket)

C10_TotalsNeverDecrease ==
  [][\A p \in purchased_products :
       \E q \in purchased_products' :
         /\ q.product = p.product
         /\ q.total_units_sold >= p.total_units_sold
         /\ q.total_revenue >= p.total_revenue]_vars

\* the (product, category) pairs of the committed loads
LoadedPairs == UNION {GroupKeys(committed[n].rows) : n \in 1..Len(committed)}

\* C11 as stated: every (product, category) pair of a committed load has a row of
\* its own in purchased_products.
C11_EveryPairHasRow ==
  \A k \in LoadedPairs :
    \E p \in purchased_products : p.product = k[1] /\ p.category = k[2]

\* the audit rows of DAG run r
AuditRows(r) == {n \in 1..Len(pipeline_runs) : pipeline_runs[n].dag_run_id = r}

\* C12 as stated: every DAG run that has ended, in success or in failure, has
\* exactly one row in pipeline_runs.
C12_EveryEndedRunLogged ==
  \A r \in 1..Len(dag_runs) :
    dag_runs[r] \in {"success", "failed"} => Cardinality(AuditRows(r)) = 1

\* the task graph: the task that follows each task of a run
Downstream ==
  [download_from_minio |-> "validate_csv", validate_csv |-> "transform_data",
   transform_data |-> "load_to_postgres", load_to_postgres |-> "archive_file",
   archive_file |-> "none"]

\* the keys of the files a committed load has logged
LoggedKeys == {pipeline_runs[n].file_processed : n \in 1..Len(pipeline_runs)}

\* C13: a run starts with download_from_minio; a task hands over to the next task
\* of download, validate, transform, load, archive only by succeeding, and ends the
\* run otherwise; the buckets lose or archive an object only in archive_file, only
\* the object of the active run, and only when the load of that run has committed
\* its audit row for it; an object that no committed load has logged is in the
\* raw-data bucket.
C13_StagesInOrder ==
  [][/\ (task' # task /\ task = "none") => task' = "download_from_minio"
     /\ (task' # task /\ task # "none")
          => /\ ti'.task = task
             /\ ti'.dag_run = Len(dag_runs)
             /\ \/ task' = Downstream[task] /\ ti'.state = "success"
                \/ task' = "none" /\ ti'.state = "failed"
     /\ (processed_bucket' # processed_bucket
         \/ ~(Keys(raw_bucket) \subseteq Keys(raw_bucket')))
          => /\ task = "archive_file"
             /\ \E n \in AuditRows(Len(dag_runs)) :
                  pipeline_runs[n].file_processed = xcom.object_key
             /\ Keys(processed_bucket') \ Keys(processed_bucket) \subseteq {xcom.object_key}
             /\ Keys(raw_bucket) \ Keys(raw_bucket') \subseteq {xcom.object_key}
     /\ \A k \in Keys(raw_bucket') \cup Keys(processed_bucket') :
          k \notin LoggedKeys' => k \in Keys(raw_bucket') \ Keys(processed_bucket')]_vars

\* one object archived by a run that succeeded, and the object of a later run whose
\* load failed on every attempt still in the raw-data bucket only
C13_Witness ==
  /\ Len(dag_runs) = 2
  /\ dag_runs[1] = "success"
  /\ dag_runs[2] = "failed"
  /\ ti.task = "load_to_postgres"
  /\ ti.state = "failed"
  /\ Keys(processed_bucket) = {1}
  /\ Keys(raw_bucket) = {2}
  /\ xcom.object_key = 2
  /\ LoggedKeys = {1}

\* C14 as stated: the rows_inserted a committed load writes to its audit row is the
\* number of rows of the cleaned batch it loaded, whatever the size of the batch.
C14_CountsEveryRow ==
  [][Commits =>
       pipeline_runs'[Len(pipeline_runs')].rows_inserted
         = Len(xcom.cleaned_path.rows)]_vars

\* C15 as stated: every stored order with status 'completed' has a total revenue,
\* quantity x unit_price x (1 - discount), above zero.
C15_CompletedRevenuePositive ==
  \A o \in orders :
    o["status"] = S(Str_completed) => ~IsNull(Revenue(o)) /\ Revenue(o).v > 0

\* C16 as stated: no stored order has an order_date after the current date.
C16_NoFutureDates ==
  \A o \in orders : o["order_date"].v <= CurrentDate

\* C17: no step removes an object from the object store: every object of the
\* raw-data or the processed-data bucket, key and body, is in one of the two
\* buckets after the step, and an object leaves the raw-data bucket only when the
\* processed-data bucket holds it.
C17_NeverLost ==
  [][/\ \A o \in raw_bucket \cup processed_bucket :
          o \in raw_bucket' \cup processed_bucket'
     /\ \A o \in raw_bucket \ raw_bucket' : o \in processed_bucket']_vars

\* archive_file failed after copy_object and before delete_object, and is up for
\* retry with the object in both buckets
C17_Witness ==
  /\ ti.task = "archive_file"
  /\ ti.state = "up_for_retry"
  /\ task = "archive_file"
  /\ xcom.object_key \in Keys(raw_bucket) \cap Keys(processed_bucket)

=============================================================================
